---- MODULE Spec2Model ----
(***************************************************************************)
(* Model of the internship recommendation engine: the TF-IDF similarity    *)
(* index (simple_backup_recommender.py, rag_internship_recommender.py),    *)
(* the generative primary recommender and the three-tier fallback of       *)
(* IntegratedRecommender.recommend_internships (integrated_recommender.py).*)
(***************************************************************************)
EXTENDS Integers, Sequences, FiniteSets, TLC

(* ---------------------------------------------------------------- bounds *)
MaxN == 3        \* postings in the catalog
MaxNum == 4      \* num_recommendations of a request
MaxSim == 1      \* cosine similarities, scaled to the levels 0..MaxSim
MaxTopK == 4     \* top_k of a direct get_similar_internships call
MaxResp == 4     \* tokens of a generative response
MaxRank == 2     \* rank values a generative response may carry

(* ------------------------------------------------------ program constants *)
PrimaryTopK == 15        \* top_k of the primary recommender's retrieval
FallbackHead == 5        \* similar_internships.head(5)
BackupBaseScore == 75
BackupStep == 3
BackupFallbackStep == 2
PrimaryFallbackStep == 2
ScoreCap == 95
EmergencyMax == 3
EmergencyScore == 70

(* ---------------------------------------------------------------- helpers *)
Min(a, b) == IF a <= b THEN a ELSE b
Max(a, b) == IF a >= b THEN a ELSE b

Reverse(s) == [i \in 1..Len(s) |-> s[Len(s) + 1 - i]]

\* Python's seq[:k]: the first k elements, or all but the last -k for k < 0.
PyPrefix(s, k) ==
    IF k >= 0 THEN SubSeq(s, 1, Min(k, Len(s)))
    ELSE SubSeq(s, 1, Max(0, Len(s) + k))

Range(s) == {s[i] : i \in 1..Len(s)}

\* The orderings of 1..n, as sequences.
RECURSIVE Perms(_)
Perms(n) ==
    IF n = 0 THEN {<<>>}
    ELSE {[i \in 1..n |-> IF i < k THEN p[i] ELSE IF i = k THEN n ELSE p[i - 1]] :
            p \in Perms(n - 1), k \in 1..n}

PermsOf == [n \in 0..MaxN |-> Perms(n)]

(* ---------------------------------------------------------------- catalog *)
\* The 'Preferred Skill(s)' cell of a row as pandas reads it: a string or a
\* missing value (NaN), either of which the recommenders handle ("str"), or
\* a number ("num": pd.notna holds, but a number has no .split).
SkillKinds == {"str", "num"}

Postings == [skills : SkillKinds]

Catalogs == UNION {[1..n -> Postings] : n \in 0..MaxN}

\* TfidfVectorizer.fit_transform raises ValueError (empty vocabulary) on a
\* catalog without documents.
setup_vectorizer(csv) == Len(csv) > 0

\* vectorizer and job_vectors of a recommender: None until setup_vectorizer,
\* then the index fitted on the catalog, one row per posting; fit_calls
\* counts the fit_transform calls that built it.
NoIndex == [fit_calls |-> 0, rows |-> 0]

fit_transform(csv) == [fit_calls |-> 1, rows |-> Len(csv)]

(* ------------------------------------------------------- similarity index *)
SimVectors(n) == [1..n -> 0..MaxSim]

\* np.argsort(similarities): the indices in ascending order of similarity;
\* the default sort kind is not stable, so ties come in any order.
argsort(sims) ==
    {p \in PermsOf[Len(sims)] :
        \A i \in 1..(Len(sims) - 1) : sims[p[i]] <= sims[p[i + 1]]}

get_similar_internships_Ascending(sims, k) ==
    {PyPrefix(p, k) : p \in argsort(sims)}

\* np.argsort(similarities)[::-1][:top_k].tolist()
get_similar_internships(sims, k) ==
    {PyPrefix(Reverse(p), k) : p \in argsort(sims)}

(* ------------------------------------------------- generative collaborator *)
\* A response text as a sequence of tokens: an opening or closing bracket, a
\* stretch of prose, or a JSON object carrying the rank field `rank`.
Tokens ==
    {[t |-> "lbr", rank |-> 0], [t |-> "rbr", rank |-> 0],
     [t |-> "prose", rank |-> 0]}
    \cup {[t |-> "obj", rank |-> r] : r \in 1..MaxRank}

Responses == UNION {[1..n -> Tokens] : n \in 0..MaxResp}

\* What call_openrouter_api gives back: the message content; None after a
\* requests.exceptions.RequestException (timeout, transport or HTTP error) or
\* a KeyError; or an exception it does not catch (IndexError on an empty
\* 'choices' list, TypeError on a body of another shape).
call_openrouter_api ==
    {[kind |-> "raises", text |-> <<>>], [kind |-> "none", text |-> <<>>]}
    \cup {[kind |-> "text", text |-> s] : s \in Responses}

\* str.find / str.rfind of a bracket; 0 stands for Python's -1.
find(s, tok) ==
    IF \E i \in 1..Len(s) : s[i].t = tok
    THEN CHOOSE i \in 1..Len(s) :
            s[i].t = tok /\ \A j \in 1..(i - 1) : s[j].t # tok
    ELSE 0

rfind(s, tok) ==
    IF \E i \in 1..Len(s) : s[i].t = tok
    THEN CHOOSE i \in 1..Len(s) :
            s[i].t = tok /\ \A j \in (i + 1)..Len(s) : s[j].t # tok
    ELSE 0

\* Nesting depth after token i.
Depth(s, i) ==
    Cardinality({j \in 1..i : s[j].t = "lbr"})
    - Cardinality({j \in 1..i : s[j].t = "rbr"})

\* Whether json.loads accepts s, for an s that starts with a bracket: one
\* array, closed by the last token, holding objects and nested arrays only.
json_accepts(s) ==
    /\ Len(s) >= 2
    /\ s[1].t = "lbr"
    /\ \A i \in 1..Len(s) : s[i].t # "prose"
    /\ \A i \in 1..(Len(s) - 1) : Depth(s, i) >= 1
    /\ Depth(s, Len(s)) = 0

\* The elements of the array json.loads returns, from token i on: an object
\* gives a recommendation with its rank, a nested array an element without
\* rank field (rank 0 here).
RECURSIVE json_items(_, _)
json_items(s, i) ==
    IF i >= Len(s) THEN <<>>
    ELSE IF s[i].t = "obj" /\ Depth(s, i) = 1
         THEN <<[rank |-> s[i].rank]>> \o json_items(s, i + 1)
    ELSE IF s[i].t = "lbr" /\ Depth(s, i) = 2
         THEN <<[rank |-> 0]>> \o json_items(s, i + 1)
    ELSE json_items(s, i + 1)

\* json.loads: ok = FALSE stands for json.JSONDecodeError.
json_loads(s) ==
    IF json_accepts(s) THEN [ok |-> TRUE, value |-> json_items(s, 2)]
    ELSE [ok |-> FALSE, value |-> <<>>]

\* Lines 225-245 of generate_recommendations_with_llm: the JSON array found
\* in the response, or a JSONDecodeError.
parse_response(response) ==
    IF response[1].t = "lbr" /\ response[Len(response)].t = "rbr"
    THEN json_loads(response)
    ELSE LET start_idx == find(response, "lbr")
             end_idx == rfind(response, "rbr")
         IN  IF start_idx # 0 /\ end_idx # 0
             THEN IF end_idx < start_idx
                  THEN [ok |-> FALSE, value |-> <<>>]
                  ELSE json_loads(SubSeq(response, start_idx, end_idx))
             ELSE [ok |-> FALSE, value |-> <<>>]

\* Whether the generative call gave a non-empty JSON list.
llm_succeeds(api) ==
    /\ api.kind = "text"
    /\ Len(api.text) > 0
    /\ parse_response(api.text).ok
    /\ Len(parse_response(api.text).value) > 0

(* ------------------------------------------------------------------ state *)
VARIABLES
    df,                         \* the catalog rows read from the CSV file
    primary_recommender,        \* TRUE: an InternshipRecommender, FALSE: None
    backup_recommender,         \* TRUE: a SimpleBackupRecommender, FALSE: None
    pc,                         \* position of the request in recommend_internships
    num_recommendations,        \* the request's num_recommendations
    resume_ok,                  \* whether resume_data is a mapping (has .get)
    attempted,                  \* the tiers tried by the request, with outcome
    llm,                        \* what the generative call did in this request
    result,                     \* the dictionary returned to the caller
    similarities,               \* the similarities of the last index query
    top_k,                      \* its top_k
    similar_indices,            \* the indices it returned
    tier2,                      \* what get_recommendations returned
    csv_columns,                \* "all", or "no_location": no Location, State/UT
    emergency_recommendations,  \* the list built by the emergency tier
    job_vectors                 \* the fitted index of each recommender

\* The state of the other components: the skills lists of the fallback
\* builders, the learning system and the HTTP endpoints.
VARIABLES
    skills_column,              \* the 'Preferred Skill(s)' cells of the catalog
    builder,                    \* which list builder produced skills_to_highlight
    skills_to_highlight,        \* skills_to_highlight of each entry it built
    decision,                   \* feedback_data['decision']
    feedback_score,             \* feedback_data['recommendation_score']
    reward,                     \* what _calculate_reward gave for them
    skill_weights,              \* rl_system.skill_weights, in units of 1/400
    company_preferences,        \* rl_system.company_preferences
    location_preferences,       \* rl_system.location_preferences
    sector_preferences,         \* rl_system.sector_preferences
    client,                     \* supabase_client.client is not None
    feedback_data,              \* the feedback record of the last call
    returned,                   \* what process_feedback returned
    before,                     \* the four tables when the call started
    processed,                  \* the number of calls so far
    candidate_profile,          \* the profile of an improved-recommendations call
    internships,                \* internships_data, the catalog it scores
    improved,                   \* what get_improved_recommendations returned
    improved_response,          \* the answer of /api/improved-recommendations
    threads,                    \* the request threads inside _update_model
    http                        \* a recommend request and its HTTP answer

tables == <<skill_weights, company_preferences, location_preferences,
            sector_preferences>>

learning_vars == <<tables, client, feedback_data, returned, before, processed>>

scoring_vars == <<candidate_profile, internships, improved, improved_response>>

serving_vars == <<threads, http>>

skills_vars == <<skills_column, builder, skills_to_highlight>>

reward_vars == <<decision, feedback_score, reward>>

ext_vars ==
    <<skills_vars, reward_vars, learning_vars, scoring_vars, serving_vars>>

core_vars ==
    <<df, primary_recommender, backup_recommender, pc, num_recommendations,
      resume_ok, attempted, llm, result, similarities, top_k, similar_indices,
      tier2, csv_columns, emergency_recommendations, job_vectors>>

vars == <<core_vars, ext_vars>>

NoResult == [method |-> "none", fallback_used |-> FALSE, recommendations |-> <<>>]
NoTier2 == [path |-> "none", recommendations |-> <<>>]

NoScore == [kind |-> "absent", value |-> 0]
NoReward == [kind |-> "none", r20 |-> 0]

\* The components a specification does not exercise stay as constructed.
SkillsIdle ==
    /\ skills_column = <<>>
    /\ builder = "none"
    /\ skills_to_highlight = <<>>

RewardIdle ==
    /\ decision = "none"
    /\ feedback_score = NoScore
    /\ reward = NoReward

\* ReinforcementLearningSystem.__init__: four empty tables.
EmptyTable == [key \in {} |-> 0]

NoFeedback == [application |-> "none"]

LearningIdle ==
    /\ skill_weights = EmptyTable
    /\ company_preferences = EmptyTable
    /\ location_preferences = EmptyTable
    /\ sector_preferences = EmptyTable
    /\ client = FALSE
    /\ feedback_data = NoFeedback
    /\ returned = "none"
    /\ before = <<EmptyTable, EmptyTable, EmptyTable, EmptyTable>>
    /\ processed = 0

NoProfile == [candidate_id |-> "", skills |-> <<>>, skills_null |-> FALSE]
NoResponse == [status |-> 0, method |-> "none", learning_applied |-> FALSE]

ScoringIdle ==
    /\ candidate_profile = NoProfile
    /\ internships = <<>>
    /\ improved = <<>>
    /\ improved_response = NoResponse

NoThreads == <<>>
NoRequest == [endpoint |-> "none"]

ServingIdle ==
    /\ threads = NoThreads
    /\ http = NoRequest

ExtIdle ==
    SkillsIdle /\ RewardIdle /\ LearningIdle /\ ScoringIdle /\ ServingIdle

\* The ranking engine with no request in progress (pc apart).
CoreIdle ==
    /\ df = <<>>
    /\ job_vectors = [primary |-> NoIndex, backup |-> NoIndex]
    /\ csv_columns = "all"
    /\ primary_recommender = TRUE
    /\ backup_recommender = TRUE
    /\ num_recommendations = 0
    /\ resume_ok = TRUE
    /\ attempted = <<>>
    /\ llm = "not_called"
    /\ result = NoResult
    /\ similarities = <<>>
    /\ top_k = 0
    /\ similar_indices = <<>>
    /\ tier2 = NoTier2
    /\ emergency_recommendations = <<>>

(* ---------------------------------------------------- tier-2 recommender *)
\* Whether row.['Preferred Skill(s)'].split(', ') raises AttributeError.
split_raises(internship) == internship.skills = "num"

\* min(75 + idx * 3, 95), idx 0-based
BackupScore(idx) == Min(BackupBaseScore + idx * BackupStep, ScoreCap)

\* SimpleBackupRecommender.create_fallback_recommendations: the first rows of
\* the catalog in storage order; raises when a skills cell cannot be split.
backup_create_fallback_recommendations(csv, num) ==
    LET n == Min(Max(num, 0), Len(csv))
    IN  IF \E i \in 1..n : split_raises(csv[i])
        THEN [kind |-> "raises", path |-> "fallback", recommendations |-> <<>>]
        ELSE [kind |-> "list", path |-> "fallback",
              recommendations |->
                [i \in 1..n |->
                    [rank |-> i, company |-> i,
                     match_score |-> BackupBaseScore + (i - 1) * BackupFallbackStep]]]

\* The loop of get_recommendations over similar_indices[:num_recommendations].
backup_loop(csv, indices, num) ==
    LET chosen == PyPrefix(indices, num)
    IN  IF \E i \in 1..Len(chosen) : split_raises(csv[chosen[i]])
        THEN [kind |-> "raises", path |-> "tfidf", recommendations |-> <<>>]
        ELSE [kind |-> "list", path |-> "tfidf",
              recommendations |->
                [i \in 1..Len(chosen) |->
                    [rank |-> i, company |-> chosen[i],
                     match_score |-> BackupScore(i - 1)]]]

get_recommendations_NoTruncation(csv, ok, num, indices) ==
    IF ok /\ backup_loop(csv, indices, Len(indices)).kind = "list"
    THEN backup_loop(csv, indices, Len(indices))
    ELSE backup_create_fallback_recommendations(csv, num)

\* SimpleBackupRecommender.get_recommendations, given the indices the index
\* query returned: any exception of the try block gives the fallback list.
get_recommendations(csv, ok, num, indices) ==
    IF ok /\ backup_loop(csv, indices, num).kind = "list"
    THEN backup_loop(csv, indices, num)
    ELSE backup_create_fallback_recommendations(csv, num)

(* ---------------------------------------------------- primary recommender *)
\* InternshipRecommender.create_fallback_recommendations over
\* similar_internships.head(5).
primary_create_fallback_recommendations(csv, indices) ==
    LET head == PyPrefix(indices, FallbackHead)
    IN  IF \E i \in 1..Len(head) : split_raises(csv[head[i]])
        THEN [kind |-> "raises", path |-> "fallback", recommendations |-> <<>>]
        ELSE [kind |-> "list", path |-> "fallback",
              recommendations |->
                [i \in 1..Len(head) |->
                    [rank |-> i, company |-> head[i],
                     match_score |->
                        Min(BackupBaseScore + (i - 1) * PrimaryFallbackStep, ScoreCap)]]]

\* InternshipRecommender.generate_recommendations_with_llm
generate_recommendations_with_llm(csv, indices, api) ==
    IF api.kind = "raises"
    THEN [kind |-> "raises", path |-> "llm", recommendations |-> <<>>]
    ELSE IF llm_succeeds(api)
    THEN [kind |-> "list", path |-> "llm",
          recommendations |-> parse_response(api.text).value]
    ELSE primary_create_fallback_recommendations(csv, indices)

\* InternshipRecommender.recommend_internships: the list it returns, cut to
\* num_recommendations, or an exception.
primary_recommend_internships(csv, ok, num, indices, api) ==
    IF ~ok
    THEN [kind |-> "raises", path |-> "profile", recommendations |-> <<>>]
    ELSE LET g == generate_recommendations_with_llm(csv, indices, api)
         IN  [g EXCEPT !.recommendations = PyPrefix(g.recommendations, num)]

\* How the generative call ended, for a request that reached it.
llm_status(ok, api) ==
    IF ~ok THEN "not_called"
    ELSE IF api.kind = "raises" THEN "raised"
    ELSE IF llm_succeeds(api) THEN "ok"
    ELSE "failed"

\* One generative outcome for each way the primary recommender can go on:
\* the call raising, failing, or giving a particular non-empty list.
ApiBehaviour(api) ==
    [status |-> llm_status(TRUE, api),
     value |-> IF llm_succeeds(api) THEN parse_response(api.text).value ELSE <<>>]

ApiSamples ==
    {CHOOSE api \in call_openrouter_api : ApiBehaviour(api) = b :
        b \in {ApiBehaviour(a) : a \in call_openrouter_api}}

(* ------------------------------------------------- integrated recommender *)
\* The names bound in the namespace of integrated_recommender.py.
ModuleNames ==
    {"InternshipRecommender", "SimpleBackupRecommender", "get_api_key",
     "is_api_configured", "warnings"}

\* Evaluating pd.Timestamp.now() raises NameError when pd is not bound.
timestamp_raises == "pd" \notin ModuleNames

\* setup_recommenders: which recommenders could be constructed.
setup_primary(csv, api_configured) == api_configured /\ setup_vectorizer(csv)

setup_backup(csv, columns) == columns = "all" /\ setup_vectorizer(csv)

PrimaryAvailable == primary_recommender

BackupAvailable_Skipped == FALSE

BackupAvailable == backup_recommender

PrimaryResult_FallbackFlag(recs) ==
    [method |-> "primary", fallback_used |-> TRUE, recommendations |-> recs]

PrimaryResult(recs) ==
    [method |-> "primary", fallback_used |-> FALSE, recommendations |-> recs]

BackupResult(recs) ==
    [method |-> "backup", fallback_used |-> TRUE, recommendations |-> recs]

EmergencyResult(recs) ==
    [method |-> "emergency_fallback", fallback_used |-> TRUE,
     recommendations |-> recs]

\* The placeholder entries "Company i" / "Internship i" of the emergency tier;
\* company 0: the entry names no posting of the catalog.
EmergencyList(num) ==
    [i \in 1..Min(EmergencyMax, Max(num, 0)) |->
        [rank |-> i, company |-> 0, match_score |-> EmergencyScore]]

Init ==
    /\ \E csv \in Catalogs, api_configured \in BOOLEAN,
          columns \in {"all", "no_location"} :
        /\ setup_primary(csv, api_configured) \/ setup_backup(csv, columns)
        /\ df = csv
        /\ csv_columns = columns
        /\ primary_recommender = setup_primary(csv, api_configured)
        /\ backup_recommender = setup_backup(csv, columns)
        /\ job_vectors =
            [primary |-> IF setup_primary(csv, api_configured)
                         THEN fit_transform(csv) ELSE NoIndex,
             backup |-> IF setup_backup(csv, columns)
                        THEN fit_transform(csv) ELSE NoIndex]
    /\ pc = "idle"
    /\ num_recommendations = 0
    /\ resume_ok = TRUE
    /\ attempted = <<>>
    /\ llm = "not_called"
    /\ result = NoResult
    /\ similarities = <<>>
    /\ top_k = 0
    /\ similar_indices = <<>>
    /\ tier2 = NoTier2
    /\ emergency_recommendations = <<>>
    /\ ExtIdle

\* A caller invokes recommend_internships(resume_data, num_recommendations).
Request ==
    /\ pc = "idle"
    /\ \E num \in 0..MaxNum, ok \in BOOLEAN :
        /\ num_recommendations' = num
        /\ resume_ok' = ok
    /\ pc' = "at_primary"
    /\ UNCHANGED <<df, job_vectors, primary_recommender, backup_recommender,
                   attempted, llm, result, similarities, top_k,
                   similar_indices, tier2, csv_columns,
                   emergency_recommendations>>
    /\ UNCHANGED ext_vars

PrimaryRetrieve_Refit ==
    /\ pc = "at_primary"
    /\ PrimaryAvailable
    /\ pc' = "at_backup"
    /\ job_vectors' =
        [job_vectors EXCEPT
            !.primary.fit_calls = job_vectors.primary.fit_calls + 1]
    /\ UNCHANGED <<df, primary_recommender, backup_recommender,
                   num_recommendations, resume_ok, attempted, llm, result,
                   similarities, top_k, similar_indices, tier2, csv_columns,
                   emergency_recommendations>>
    /\ UNCHANGED ext_vars

\* Lines 65-68, and the primary recommender up to the generative call: the
\* profile text, the index query with top_k = 15 and the prompt.
PrimaryRetrieve ==
    /\ pc = "at_primary"
    /\ IF ~PrimaryAvailable
       THEN /\ pc' = "at_backup"
            /\ UNCHANGED <<attempted, top_k, similar_indices>>
       ELSE IF ~resume_ok
       THEN /\ pc' = "at_backup"
            /\ attempted' = Append(attempted, [tier |-> "primary", outcome |-> "raised"])
            /\ UNCHANGED <<top_k, similar_indices>>
       ELSE \E sims \in SimVectors(Len(df)) :
            \E indices \in get_similar_internships(sims, PrimaryTopK) :
                /\ top_k' = PrimaryTopK
                /\ similar_indices' = indices
                /\ IF csv_columns = "all"
                   THEN /\ pc' = "llm_call"
                        /\ UNCHANGED attempted
                   ELSE /\ pc' = "at_backup"
                        /\ attempted' =
                            Append(attempted, [tier |-> "primary", outcome |-> "raised"])
    /\ UNCHANGED <<df, job_vectors, primary_recommender, backup_recommender,
                   num_recommendations, resume_ok, llm, result, similarities,
                   tier2, csv_columns, emergency_recommendations>>
    /\ UNCHANGED ext_vars

\* The generative call and what the primary tier makes of it (lines 68-75).
PrimaryGenerate ==
    /\ pc = "llm_call"
    /\ \E api \in ApiSamples :
        LET out == primary_recommend_internships(
                       df, resume_ok, num_recommendations, similar_indices, api)
        IN  /\ llm' = llm_status(resume_ok, api)
            /\ IF out.kind = "raises"
               THEN /\ pc' = "at_backup"
                    /\ attempted' =
                        Append(attempted, [tier |-> "primary", outcome |-> "raised"])
                    /\ UNCHANGED result
               ELSE /\ pc' = "returned"
                    /\ attempted' =
                        Append(attempted, [tier |-> "primary", outcome |-> "returned"])
                    /\ result' = PrimaryResult(out.recommendations)
    /\ UNCHANGED <<df, job_vectors, primary_recommender, backup_recommender,
                   num_recommendations, resume_ok, similarities, top_k,
                   similar_indices, tier2, csv_columns,
                   emergency_recommendations>>
    /\ UNCHANGED ext_vars

\* Lines 83-90 after get_recommendations returned: the profile text, then
\* the timestamp.
backup_tier_raises == ~resume_ok \/ timestamp_raises

\* The backup tier, lines 78-94.
BackupTier ==
    /\ pc = "at_backup"
    /\ IF ~BackupAvailable
       THEN /\ pc' = "at_emergency"
            /\ UNCHANGED <<attempted, result, similarities, top_k,
                           similar_indices, tier2>>
       ELSE \E sims \in (IF resume_ok THEN SimVectors(Len(df)) ELSE {<<>>}) :
            \E indices \in get_similar_internships(sims, 2 * num_recommendations) :
            LET g == get_recommendations(df, resume_ok, num_recommendations, indices)
            IN  /\ IF resume_ok
                   THEN /\ similarities' = sims
                        /\ top_k' = 2 * num_recommendations
                        /\ similar_indices' = indices
                   ELSE UNCHANGED <<similarities, top_k, similar_indices>>
                /\ tier2' = IF g.kind = "list"
                            THEN [path |-> g.path, recommendations |-> g.recommendations]
                            ELSE NoTier2
                /\ IF g.kind = "raises" \/ backup_tier_raises
                   THEN /\ pc' = "at_emergency"
                        /\ attempted' =
                            Append(attempted, [tier |-> "backup", outcome |-> "raised"])
                        /\ UNCHANGED result
                   ELSE /\ pc' = "returned"
                        /\ attempted' =
                            Append(attempted, [tier |-> "backup", outcome |-> "returned"])
                        /\ result' = BackupResult(g.recommendations)
    /\ UNCHANGED <<df, job_vectors, primary_recommender, backup_recommender,
                   num_recommendations, resume_ok, llm, csv_columns,
                   emergency_recommendations>>
    /\ UNCHANGED ext_vars

\* The emergency tier, lines 96-121.
EmergencyTier ==
    /\ pc = "at_emergency"
    /\ emergency_recommendations' = EmergencyList(num_recommendations)
    /\ IF timestamp_raises
       THEN /\ pc' = "raised"
            /\ attempted' =
                Append(attempted, [tier |-> "emergency", outcome |-> "raised"])
            /\ UNCHANGED result
       ELSE /\ pc' = "returned"
            /\ attempted' =
                Append(attempted, [tier |-> "emergency", outcome |-> "returned"])
            /\ result' = EmergencyResult(EmergencyList(num_recommendations))
    /\ UNCHANGED <<df, job_vectors, primary_recommender, backup_recommender,
                   num_recommendations, resume_ok, llm, similarities, top_k,
                   similar_indices, tier2, csv_columns>>
    /\ UNCHANGED ext_vars

\* The call is over (a dictionary returned, or the exception propagated) and
\* the recommender waits for the next request.
Finish ==
    /\ pc \in {"returned", "raised"}
    /\ pc' = "idle"
    /\ num_recommendations' = 0
    /\ resume_ok' = TRUE
    /\ attempted' = <<>>
    /\ llm' = "not_called"
    /\ result' = NoResult
    /\ similarities' = <<>>
    /\ top_k' = 0
    /\ similar_indices' = <<>>
    /\ tier2' = NoTier2
    /\ emergency_recommendations' = <<>>
    /\ UNCHANGED <<df, job_vectors, primary_recommender, backup_recommender, csv_columns>>
    /\ UNCHANGED ext_vars

Next ==
    \/ Request
    \/ PrimaryRetrieve
    \/ PrimaryGenerate
    \/ BackupTier
    \/ EmergencyTier
    \/ Finish

Spec == Init /\ [][Next]_vars

(* ------------------------------------------- the similarity index alone *)
\* A SimpleBackupRecommender whose get_similar_internships is called directly.
InitSim ==
    /\ \E csv \in Catalogs :
        /\ setup_backup(csv, "all")
        /\ df = csv
        /\ job_vectors = [primary |-> NoIndex, backup |-> fit_transform(csv)]
    /\ csv_columns = "all"
    /\ primary_recommender = FALSE
    /\ backup_recommender = TRUE
    /\ pc = "index_idle"
    /\ num_recommendations = 0
    /\ resume_ok = TRUE
    /\ attempted = <<>>
    /\ llm = "not_called"
    /\ result = NoResult
    /\ similarities = <<>>
    /\ top_k = 0
    /\ similar_indices = <<>>
    /\ tier2 = NoTier2
    /\ emergency_recommendations = <<>>
    /\ ExtIdle

\* get_similar_internships(candidate_profile, top_k) for a profile text whose
\* cosine similarities to the postings are sims.
IndexQuery ==
    /\ pc = "index_idle"
    /\ \E sims \in SimVectors(Len(df)), k \in 0..MaxTopK :
       \E indices \in get_similar_internships(sims, k) :
        /\ similarities' = sims
        /\ top_k' = k
        /\ similar_indices' = indices
    /\ pc' = "index_done"
    /\ UNCHANGED <<df, job_vectors, primary_recommender, backup_recommender,
                   num_recommendations, resume_ok, attempted, llm, result,
                   tier2, csv_columns, emergency_recommendations>>
    /\ UNCHANGED ext_vars

IndexReturn ==
    /\ pc = "index_done"
    /\ pc' = "index_idle"
    /\ similarities' = <<>>
    /\ top_k' = 0
    /\ similar_indices' = <<>>
    /\ UNCHANGED <<df, job_vectors, primary_recommender, backup_recommender,
                   num_recommendations, resume_ok, attempted, llm, result,
                   tier2, csv_columns, emergency_recommendations>>
    /\ UNCHANGED ext_vars

NextSim == IndexQuery \/ IndexReturn

SpecSim == InitSim /\ [][NextSim]_vars

(* ----------------------------------------------------------------- claims *)
RequestOver == pc \in {"returned", "raised"}

\* Whether the request tried a tier, and whether that tier raised.
Tried(tier) == \E i \in 1..Len(attempted) : attempted[i].tier = tier

Failed(tier) ==
    \E i \in 1..Len(attempted) :
        attempted[i] = [tier |-> tier, outcome |-> "raised"]

TierRank(tier) ==
    IF tier = "primary" THEN 1 ELSE IF tier = "backup" THEN 2 ELSE 3

\* C1: the tiers of a request are tried in the order primary, backup,
\* emergency; the backup tier is tried only when the primary recommender is
\* missing or its tier raised, the emergency tier only when the backup
\* recommender too is missing or its tier raised, and the request raises
\* only after all three tiers failed.
C1_TierOrder ==
    /\ \A i, j \in 1..Len(attempted) :
        i < j => TierRank(attempted[i].tier) < TierRank(attempted[j].tier)
    /\ Tried("backup") => (~primary_recommender \/ Failed("primary"))
    /\ Tried("emergency") =>
        /\ ~primary_recommender \/ Failed("primary")
        /\ ~backup_recommender \/ Failed("backup")
    /\ pc = "raised" =>
        /\ ~primary_recommender \/ Failed("primary")
        /\ ~backup_recommender \/ Failed("backup")
        /\ Failed("emergency")
    /\ pc = "returned" =>
        /\ Len(attempted) > 0
        /\ attempted[Len(attempted)].outcome = "returned"
        /\ \A i \in 1..(Len(attempted) - 1) : attempted[i].outcome = "raised"

C1_Witness ==
    /\ pc = "raised"
    /\ primary_recommender
    /\ backup_recommender
    /\ attempted = <<[tier |-> "primary", outcome |-> "raised"],
                     [tier |-> "backup", outcome |-> "raised"],
                     [tier |-> "emergency", outcome |-> "raised"]>>

\* C2: a request whose primary tier raised ends with a returned result of
\* method 'backup' or 'emergency_fallback', and never raises.
C2_PrimaryRaisesStillAnswers ==
    (RequestOver /\ Failed("primary")) =>
        /\ pc = "returned"
        /\ result.method \in {"backup", "emergency_fallback"}

\* C3: without a primary recommender, a catalog of one posting and a
\* well-formed profile give method 'backup' and exactly one recommendation,
\* of rank 1, match_score 75 and the company of that posting.
C3_SinglePostingBackup ==
    (/\ RequestOver
     /\ ~primary_recommender
     /\ Len(df) = 1
     /\ df[1].skills = "str"
     /\ resume_ok
     /\ num_recommendations >= 1) =>
        /\ pc = "returned"
        /\ result.method = "backup"
        /\ result.recommendations =
            <<[rank |-> 1, company |-> 1, match_score |-> BackupBaseScore]>>

\* C4: when the generative call fails or gives no non-empty JSON list, the
\* request ends with a returned result whose method is not 'primary' and
\* whose fallback_used is true.
C4_LLMFailureFallsToTier2 ==
    (RequestOver /\ llm = "failed") =>
        /\ pc = "returned"
        /\ result.method # "primary"
        /\ result.fallback_used

\* C5: a returned result has a method among primary, backup and
\* emergency_fallback, and fallback_used is true exactly when the method is
\* not primary.
C5_MethodAndFlag ==
    pc = "returned" =>
        /\ result.method \in {"primary", "backup", "emergency_fallback"}
        /\ result.fallback_used <=> (result.method # "primary")

C5_Witness ==
    /\ pc = "returned"
    /\ result.method = "primary"
    /\ Len(result.recommendations) > 0

\* C6: the rank fields of a returned recommendation list, read in list
\* order, are 1, 2, ..., len(list).
C6_DenseRanks ==
    pc = "returned" =>
        \A i \in 1..Len(result.recommendations) :
            result.recommendations[i].rank = i

\* C7: the recommendation at 0-based position p of a list returned by
\* get_recommendations has match_score min(75 + 3*p, 95).
C7_Tier2Scores ==
    tier2.path # "none" =>
        \A i \in 1..Len(tier2.recommendations) :
            tier2.recommendations[i].match_score =
                Min(BackupBaseScore + BackupStep * (i - 1), ScoreCap)

\* C8: the emergency tier returns the first min(3, num_recommendations)
\* catalog entries in storage order, no more than the catalog holds, each
\* with match_score 70.
C8_EmergencyList ==
    (RequestOver /\ Tried("emergency")) =>
        /\ pc = "returned"
        /\ result.method = "emergency_fallback"
        /\ result.recommendations =
            [i \in 1..Min(Min(EmergencyMax, num_recommendations), Len(df)) |->
                [rank |-> i, company |-> i, match_score |-> EmergencyScore]]

\* C9: get_similar_internships returns at most min(top_k, N) indices of
\* postings, all distinct, in non-increasing order of similarity, and no
\* posting left out is strictly more similar than a posting returned.
C9_TopKBySimilarity ==
    pc = "index_done" =>
        /\ Len(similar_indices) <= Min(top_k, Len(df))
        /\ Range(similar_indices) \subseteq 1..Len(df)
        /\ \A i, j \in 1..Len(similar_indices) :
            i # j => similar_indices[i] # similar_indices[j]
        /\ \A i \in 1..(Len(similar_indices) - 1) :
            similarities[similar_indices[i]] >= similarities[similar_indices[i + 1]]
        /\ \A out \in (1..Len(df)) \ Range(similar_indices) :
           \A in \in Range(similar_indices) :
            similarities[out] <= similarities[in]

C9_Witness ==
    /\ pc = "index_done"
    /\ Len(df) = 3
    /\ top_k = 2
    /\ Len(similar_indices) = 2
    /\ similarities[similar_indices[1]] > similarities[similar_indices[2]]
    /\ \E out \in (1..Len(df)) \ Range(similar_indices) :
        similarities[out] < similarities[similar_indices[1]]

Companies(recs) == [i \in 1..Len(recs) |-> recs[i].company]

NoRepeat(s) == \A i, j \in 1..Len(s) : i # j => s[i] # s[j]

\* Whether the postings s are the most similar ones, in similarity order.
MostSimilarInOrder(s) ==
    /\ \A i \in 1..(Len(s) - 1) : similarities[s[i]] >= similarities[s[i + 1]]
    /\ \A out \in (1..Len(df)) \ Range(s) :
       \A in \in Range(s) : similarities[out] <= similarities[in]

MaxSkills == 6
MaxRows == 2
HighlightCap == 5

\* A 'Preferred Skill(s)' cell: NaN, or a string of n skills joined by ', '
\* (n = 0: the empty string).
SkillCells == [kind : {"nan", "str"}, n : 0..MaxSkills]

SkillColumns ==
    UNION {[1..len -> {c \in SkillCells : c.kind = "str" \/ c.n = 0}] :
           len \in 1..MaxRows}

\* str.split(', '): the empty string gives [''].
py_split(cell) == IF cell.n = 0 THEN <<"">> ELSE [i \in 1..cell.n |-> "skill"]

NotBlank(skill) == skill # ""

\* simple_backup_recommender.py lines 127-128: split, strip, drop the blank
\* entries, keep the first five.
backup_loop_skills(cell) ==
    PyPrefix(SelectSeq(IF cell.kind = "str" THEN py_split(cell)
                       ELSE <<"Communication", "Teamwork">>, NotBlank),
             HighlightCap)

\* SimpleBackupRecommender.create_fallback_recommendations, line 162.
backup_fallback_skills(cell) ==
    IF cell.kind = "str" THEN py_split(cell) ELSE <<"Communication", "Teamwork">>

\* InternshipRecommender.create_fallback_recommendations, line 269.
primary_fallback_skills(cell) ==
    IF cell.kind = "str" THEN py_split(cell) ELSE <<>>

InitSkills ==
    /\ \E column \in SkillColumns : skills_column = column
    /\ builder = "none"
    /\ skills_to_highlight = <<>>
    /\ pc = "skills_idle"
    /\ CoreIdle
    /\ RewardIdle
    /\ LearningIdle
    /\ ScoringIdle
    /\ ServingIdle

\* The loop of SimpleBackupRecommender.get_recommendations over the rows the
\* index query chose (here the first num rows).
BuildTier2List ==
    /\ pc = "skills_idle"
    /\ \E num \in 1..MaxRows :
        /\ num_recommendations' = num
        /\ skills_to_highlight' =
            [i \in 1..Min(num, Len(skills_column)) |->
                backup_loop_skills(skills_column[i])]
    /\ builder' = "tier2"
    /\ pc' = "skills_built"
    /\ UNCHANGED <<df, job_vectors, primary_recommender, backup_recommender, resume_ok,
                   attempted, llm, result, similarities, top_k, similar_indices,
                   tier2, csv_columns, emergency_recommendations, skills_column>>
    /\ UNCHANGED <<reward_vars, learning_vars, scoring_vars, serving_vars>>

\* SimpleBackupRecommender.create_fallback_recommendations over df.head(num).
BuildTier2Fallback ==
    /\ pc = "skills_idle"
    /\ \E num \in 1..MaxRows :
        /\ num_recommendations' = num
        /\ skills_to_highlight' =
            [i \in 1..Min(num, Len(skills_column)) |->
                backup_fallback_skills(skills_column[i])]
    /\ builder' = "tier2_fallback"
    /\ pc' = "skills_built"
    /\ UNCHANGED <<df, job_vectors, primary_recommender, backup_recommender, resume_ok,
                   attempted, llm, result, similarities, top_k, similar_indices,
                   tier2, csv_columns, emergency_recommendations, skills_column>>
    /\ UNCHANGED <<reward_vars, learning_vars, scoring_vars, serving_vars>>

\* InternshipRecommender.create_fallback_recommendations over
\* similar_internships.head(5), then cut to num_recommendations.
BuildPrimaryFallback ==
    /\ pc = "skills_idle"
    /\ \E num \in 1..MaxRows :
        /\ num_recommendations' = num
        /\ skills_to_highlight' =
            PyPrefix([i \in 1..Min(FallbackHead, Len(skills_column)) |->
                         primary_fallback_skills(skills_column[i])], num)
    /\ builder' = "primary_fallback"
    /\ pc' = "skills_built"
    /\ UNCHANGED <<df, job_vectors, primary_recommender, backup_recommender, resume_ok,
                   attempted, llm, result, similarities, top_k, similar_indices,
                   tier2, csv_columns, emergency_recommendations, skills_column>>
    /\ UNCHANGED <<reward_vars, learning_vars, scoring_vars, serving_vars>>

SkillsReturn ==
    /\ pc = "skills_built"
    /\ pc' = "skills_idle"
    /\ builder' = "none"
    /\ skills_to_highlight' = <<>>
    /\ num_recommendations' = 0
    /\ UNCHANGED <<df, job_vectors, primary_recommender, backup_recommender, resume_ok,
                   attempted, llm, result, similarities, top_k, similar_indices,
                   tier2, csv_columns, emergency_recommendations, skills_column>>
    /\ UNCHANGED <<reward_vars, learning_vars, scoring_vars, serving_vars>>

NextSkills ==
    \/ BuildTier2List
    \/ BuildTier2Fallback
    \/ BuildPrimaryFallback
    \/ SkillsReturn

SpecSkills == InitSkills /\ [][NextSkills]_vars

\* C11: every recommendation built by the tier-2 list, tier 2's fallback list
\* and the primary recommender's fallback list carries at most 5 entries in
\* skills_to_highlight, whatever the number of skills of the posting.
C11_AtMostFiveSkills ==
    pc = "skills_built" =>
        \A i \in 1..Len(skills_to_highlight) :
            Len(skills_to_highlight[i]) <= HighlightCap

(* ------------------------------------------------------- _calculate_reward *)
MaxScore == 15
RewardScale == 20
ScoreMax == 10
DefaultScore == 5

Decisions == {"accepted", "rejected", "pending"}

\* feedback_data['recommendation_score']: a number, a string, or no such key.
ScoreInputs ==
    [kind : {"num"}, value : 0..MaxScore]
        \cup {[kind |-> "text", value |-> 0], NoScore}

\* feedback_data.get('recommendation_score', 5)
get_recommendation_score(score) ==
    IF score.kind = "absent" THEN [kind |-> "num", value |-> DefaultScore]
    ELSE score

_calculate_reward_FullPenalty(d, score) ==
    IF score.kind # "num" THEN [kind |-> "raises", r20 |-> 0]
    ELSE IF d = "accepted"
    THEN [kind |-> "value", r20 |-> 2 * score.value]
    ELSE [kind |-> "value", r20 |-> -2 * (ScoreMax - score.value)]

_calculate_reward_AlwaysPenalty(d, score) ==
    IF score.kind # "num" THEN [kind |-> "raises", r20 |-> 0]
    ELSE IF d = "accepted"
    THEN [kind |-> "value", r20 |-> 2 * score.value]
    ELSE [kind |-> "value", r20 |-> -(ScoreMax - score.value) - 1]

\* _calculate_reward, in units of 1/20: 1.0 * (score / 10.0) when accepted,
\* -0.5 * ((10 - score) / 10.0) otherwise; dividing a string raises TypeError.
_calculate_reward(d, score) ==
    IF score.kind # "num" THEN [kind |-> "raises", r20 |-> 0]
    ELSE IF d = "accepted"
    THEN [kind |-> "value", r20 |-> 2 * score.value]
    ELSE [kind |-> "value", r20 |-> -(ScoreMax - score.value)]

InitReward ==
    /\ pc = "reward_idle"
    /\ RewardIdle
    /\ SkillsIdle
    /\ LearningIdle
    /\ ScoringIdle
    /\ ServingIdle
    /\ CoreIdle

\* process_feedback reads decision and recommendation_score (lines 36-37).
ReadFeedback ==
    /\ pc = "reward_idle"
    /\ \E d \in Decisions, score \in ScoreInputs :
        /\ decision' = d
        /\ feedback_score' = get_recommendation_score(score)
    /\ reward' = NoReward
    /\ pc' = "reward_call"
    /\ UNCHANGED <<df, job_vectors, primary_recommender, backup_recommender,
                   num_recommendations, resume_ok, attempted, llm, result,
                   similarities, top_k, similar_indices, tier2, csv_columns,
                   emergency_recommendations>>
    /\ UNCHANGED <<skills_vars, learning_vars, scoring_vars, serving_vars>>

\* reward = self._calculate_reward(decision, feedback_score) (line 52)
CalculateReward ==
    /\ pc = "reward_call"
    /\ reward' = _calculate_reward(decision, feedback_score)
    /\ pc' = "reward_done"
    /\ UNCHANGED <<df, job_vectors, primary_recommender, backup_recommender,
                   num_recommendations, resume_ok, attempted, llm, result,
                   similarities, top_k, similar_indices, tier2, csv_columns,
                   emergency_recommendations, decision, feedback_score>>
    /\ UNCHANGED <<skills_vars, learning_vars, scoring_vars, serving_vars>>

RewardReturn ==
    /\ pc = "reward_done"
    /\ pc' = "reward_idle"
    /\ decision' = "none"
    /\ feedback_score' = NoScore
    /\ reward' = NoReward
    /\ UNCHANGED <<df, job_vectors, primary_recommender, backup_recommender,
                   num_recommendations, resume_ok, attempted, llm, result,
                   similarities, top_k, similar_indices, tier2, csv_columns,
                   emergency_recommendations>>
    /\ UNCHANGED <<skills_vars, learning_vars, scoring_vars, serving_vars>>

NextReward == ReadFeedback \/ CalculateReward \/ RewardReturn

SpecReward == InitReward /\ [][NextReward]_vars

\* C12: for every recommendation_score s in 1..10 the reward is s/10 when the
\* decision is 'accepted' and -0.5*(10-s)/10 when it is 'rejected' (in units
\* of 1/20: 2s and -(10-s)); so it lies in [0.1, 1.0] for acceptances and in
\* [-0.45, 0] for rejections.
C12_RewardValue ==
    (/\ pc = "reward_done"
     /\ feedback_score.kind = "num"
     /\ feedback_score.value \in 1..ScoreMax
     /\ decision \in {"accepted", "rejected"}) =>
        /\ reward.kind = "value"
        /\ decision = "accepted" =>
            /\ reward.r20 * ScoreMax = feedback_score.value * RewardScale
            /\ 10 * reward.r20 >= RewardScale
            /\ reward.r20 <= RewardScale
        /\ decision = "rejected" =>
            /\ 2 * ScoreMax * reward.r20
                    = -(ScoreMax - feedback_score.value) * RewardScale
            /\ 100 * reward.r20 >= -45 * RewardScale
            /\ reward.r20 <= 0

C12_Witness ==
    /\ pc = "reward_done"
    /\ decision = "rejected"
    /\ feedback_score = [kind |-> "num", value |-> 1]
    /\ reward = [kind |-> "value", r20 |-> -9]

(* --------------------------------------------------------- process_feedback *)
MaxFeedback == 3
WeightScale == 400
learning_rate == WeightScale \div 10

\* str.lower() on the keys that occur.
Lower(s) ==
    CASE s = "Python" -> "python"
      [] s = "SQL" -> "sql"
      [] s = "Acme" -> "acme"
      [] s = "Pune" -> "pune"
      [] s = "IT" -> "it"
      [] OTHER -> s

\* learning_rate * reward, in units of 1/400 (reward in units of 1/20).
GapIncrement(r20) == (learning_rate * r20) \div RewardScale

\* learning_rate * reward * 0.5
StrengthIncrement(r20) == (learning_rate * r20) \div (2 * RewardScale)

Bump_Overwrite(table, key, inc) ==
    [k \in DOMAIN table \cup {key} |-> IF k = key THEN inc ELSE table[k]]

\* if key in table: table[key] += inc, else: table[key] = inc
Bump(table, key, inc) ==
    IF key \in DOMAIN table
    THEN [table EXCEPT ![key] = @ + inc]
    ELSE [k \in DOMAIN table \cup {key} |-> IF k = key THEN inc ELSE table[k]]

RECURSIVE BumpEach(_, _, _)
\* for skill in skills: the update of skill.lower()
BumpEach(table, skills, inc) ==
    IF skills = <<>> THEN table
    ELSE BumpEach(Bump(table, Lower(Head(skills)), inc), Tail(skills), inc)

\* if value: the update of value.lower()
BumpIfSet(table, value, inc) ==
    IF value = "" THEN table ELSE Bump(table, Lower(value), inc)

\* The feedback records and the applications they name.  application:
\* "found", "missing" (no such row) or "no_candidate_id" (a row without that
\* key); company "null": the posting's company is JSON null; profile: whether
\* the stored profile of the candidate can be read by _update_candidate_profile;
\* save: whether the insert of the learning record succeeds.
FeedbackRecords ==
    [application : {"found", "missing", "no_candidate_id"},
     decision : {"accepted", "rejected"},
     score : {[kind |-> "num", value |-> 1], [kind |-> "num", value |-> ScoreMax],
              [kind |-> "text", value |-> 0]},
     skill_gaps : {<<>>, <<"Python">>},
     strengths : {<<>>, <<"SQL">>},
     company : {"", "Acme", "null"},
     location : {"Pune"},
     sector : {"IT"},
     profile : {"ok", "raises"},
     save : {"ok", "fails"}]

\* The number of abnormal fields of a record.
Faults(fb) ==
    (IF fb.application # "found" THEN 1 ELSE 0)
    + (IF fb.score.kind # "num" THEN 1 ELSE 0)
    + (IF fb.company = "null" THEN 1 ELSE 0)
    + (IF fb.profile # "ok" THEN 1 ELSE 0)
    + (IF fb.save # "ok" THEN 1 ELSE 0)

FeedbackInputs == {fb \in FeedbackRecords : Faults(fb) <= 1}

get_application_by_id_AnyRow(connected, fb) == fb.application

\* supabase_client.get_application_by_id: None without a client or a row.
get_application_by_id(connected, fb) ==
    IF connected /\ fb.application # "missing" THEN fb.application ELSE "None"

save_learning_data_Propagates(connected, fb) ==
    [raised |-> ~(connected /\ fb.save = "ok"), saved |-> FALSE]

\* supabase_client.save_learning_data: False without a client or when the
\* insert fails; the exception of the insert is caught inside, never raised.
save_learning_data(connected, fb) ==
    [raised |-> FALSE, saved |-> connected /\ fb.save = "ok"]

\* _update_model: the tables after it, and whether its try block raised
\* (None.lower() at line 194); the exception is logged, not re-raised.
_update_model(t, fb, r20) ==
    LET gaps == BumpEach(t[1], fb.skill_gaps, GapIncrement(r20))
        skills == BumpEach(gaps, fb.strengths, StrengthIncrement(r20))
    IN  IF fb.company = "null"
        THEN [raised |-> TRUE, tables |-> <<skills, t[2], t[3], t[4]>>]
        ELSE [raised |-> FALSE,
              tables |-> <<skills,
                           BumpIfSet(t[2], fb.company, GapIncrement(r20)),
                           BumpIfSet(t[3], fb.location, GapIncrement(r20)),
                           BumpIfSet(t[4], fb.sector, GapIncrement(r20))>>]

\* _update_candidate_profile: whether its try block raised (swallowed too).
_update_candidate_profile(connected, fb) ==
    [raised |-> connected /\ fb.profile = "raises"]

\* process_feedback: its return value, the tables after it and the step that
\* failed internally, if any.
process_feedback(t, connected, fb) ==
    LET application == get_application_by_id(connected, fb)
        r == _calculate_reward(fb.decision, get_recommendation_score(fb.score))
        s == save_learning_data(connected, fb)
        m == _update_model(t, fb, r.r20)
        c == _update_candidate_profile(connected, fb)
    IN  IF application = "None"
        THEN [ret |-> "False", tables |-> t, failed |-> "resolve"]
        ELSE IF r.kind = "raises"
        THEN [ret |-> "False", tables |-> t, failed |-> "reward"]
        ELSE IF application = "no_candidate_id"
        THEN [ret |-> "False", tables |-> t, failed |-> "record"]
        ELSE IF s.raised
        THEN [ret |-> "False", tables |-> t, failed |-> "save"]
        ELSE [ret |-> "True", tables |-> m.tables,
              failed |-> IF m.raised THEN "model"
                         ELSE IF c.raised THEN "profile" ELSE "none"]

InitLearning ==
    /\ pc = "feedback_idle"
    /\ client \in BOOLEAN
    /\ skill_weights = EmptyTable
    /\ company_preferences = EmptyTable
    /\ location_preferences = EmptyTable
    /\ sector_preferences = EmptyTable
    /\ feedback_data = NoFeedback
    /\ returned = "none"
    /\ before = <<EmptyTable, EmptyTable, EmptyTable, EmptyTable>>
    /\ processed = 0
    /\ CoreIdle
    /\ SkillsIdle
    /\ RewardIdle
    /\ ScoringIdle
    /\ ServingIdle

\* One call rl_system.process_feedback(feedback_data), start to return.
ProcessFeedback ==
    /\ pc = "feedback_idle"
    /\ processed < MaxFeedback
    /\ \E fb \in FeedbackInputs :
        LET out == process_feedback(tables, client, fb)
        IN  /\ feedback_data' = fb
            /\ returned' = out.ret
            /\ skill_weights' = out.tables[1]
            /\ company_preferences' = out.tables[2]
            /\ location_preferences' = out.tables[3]
            /\ sector_preferences' = out.tables[4]
    /\ before' = tables
    /\ processed' = processed + 1
    /\ pc' = "feedback_done"
    /\ UNCHANGED <<df, job_vectors, primary_recommender, backup_recommender,
                   num_recommendations, resume_ok, attempted, llm, result,
                   similarities, top_k, similar_indices, tier2, csv_columns,
                   emergency_recommendations, client>>
    /\ UNCHANGED <<skills_vars, reward_vars, scoring_vars, serving_vars>>

\* The caller has the return value; the system waits for the next record.
FeedbackReturn ==
    /\ pc = "feedback_done"
    /\ pc' = "feedback_idle"
    /\ feedback_data' = NoFeedback
    /\ returned' = "none"
    /\ before' = <<EmptyTable, EmptyTable, EmptyTable, EmptyTable>>
    /\ UNCHANGED <<df, job_vectors, primary_recommender, backup_recommender,
                   num_recommendations, resume_ok, attempted, llm, result,
                   similarities, top_k, similar_indices, tier2, csv_columns,
                   emergency_recommendations, client, processed>>
    /\ UNCHANGED <<tables, skills_vars, reward_vars, scoring_vars, serving_vars>>

NextLearning == ProcessFeedback \/ FeedbackReturn

SpecLearning == InitLearning /\ [][NextLearning]_vars

FeedbackOver == pc = "feedback_done"

\* The record 'accepted, score 10' naming the skill 'Python'.
AcceptedTenPython(fb) ==
    /\ fb.decision = "accepted"
    /\ fb.score = [kind |-> "num", value |-> ScoreMax]
    /\ fb.skill_gaps = <<"Python">>

C14_UnresolvedApplication ==
    (FeedbackOver /\ (~client \/ feedback_data.application = "missing")) =>
        /\ returned = "False"
        /\ tables = before

C14_Witness ==
    /\ FeedbackOver
    /\ client
    /\ feedback_data.application = "missing"
    /\ returned = "False"
    /\ DOMAIN skill_weights # {}
    /\ DOMAIN company_preferences # {}
    /\ tables = before

\* C15: whenever a step of process_feedback fails internally (the reward, the
\* learning record, the update of the weight tables, the update of the
\* candidate profile) the call returns False, and it returns True only when
\* every step succeeded.
C15_FalseOnInternalFailure ==
    FeedbackOver =>
        LET out == process_feedback(before, client, feedback_data)
        IN  /\ out.failed # "none" => returned = "False"
            /\ returned = "True" => out.failed = "none"

(* --------------------------------------------- get_improved_recommendations *)
MaxCatalog == 2
ScoreUnit == 600 * WeightScale
EndpointNum == 5

\* [skill.strip().lower() for skill in text.split(',')]; ''.split(',') = [''].
split_skills(names) ==
    IF names = <<>> THEN <<"">> ELSE [i \in 1..Len(names) |-> Lower(names[i])]

\* table.get(key, default)
Get(table, key, default) == IF key \in DOMAIN table THEN table[key] ELSE default

\* The term of one required skill, in units of 1/4000: the learned weight
\* (default 1.0) if the candidate has it, 0.3 * the weight (default 0.5) if not.
SkillTerm(t, candidate_skills, skill) ==
    IF skill \in Range(candidate_skills)
    THEN 10 * Get(t[1], skill, WeightScale)
    ELSE 3 * Get(t[1], skill, WeightScale \div 2)

RECURSIVE SumTerms(_, _, _)
SumTerms(t, candidate_skills, required_skills) ==
    IF required_skills = <<>> THEN 0
    ELSE SkillTerm(t, candidate_skills, Head(required_skills))
            + SumTerms(t, candidate_skills, Tail(required_skills))

\* final_score before the clamp, in units of 1/240000:
\* skill_score * 0.4 + (company + location + sector scores) * 0.2
final_score(t, profile, internship) ==
    LET required_skills == split_skills(internship.skills)
        skill_sum == SumTerms(t, split_skills(profile.skills), required_skills)
    IN  (24 * skill_sum) \div Len(required_skills)
        + 120 * (Get(t[2], Lower(internship.company), WeightScale \div 2)
                 + Get(t[3], Lower(internship.location), WeightScale \div 2)
                 + Get(t[4], Lower(internship.sector), WeightScale \div 2))

_calculate_improved_score_Unclamped(t, profile, internship) ==
    final_score(t, profile, internship)

\* _calculate_improved_score: min(max(final_score, 0.0), 1.0)
_calculate_improved_score(t, profile, internship) ==
    Min(Max(final_score(t, profile, internship), 0), ScoreUnit)

\* One step of the stable descending sort: x goes after every entry whose
\* score is not lower than its own.
InsertDescending(sorted, x) ==
    LET ahead == {i \in 1..Len(sorted) :
                    sorted[i].improved_score >= x.improved_score}
        k == Cardinality(ahead)
    IN  SubSeq(sorted, 1, k) \o <<x>> \o SubSeq(sorted, k + 1, Len(sorted))

RECURSIVE sort_reverse(_, _)
\* list.sort(key=improved_score, reverse=True), applied to scored[from..]
\* on top of the entries already placed.
sort_reverse(scored, placed) ==
    IF scored = <<>> THEN placed
    ELSE sort_reverse(Tail(scored), InsertDescending(placed, Head(scored)))

get_improved_recommendations_Unsorted(t, profile, catalog, n) ==
    PyPrefix([i \in 1..Len(catalog) |->
                [idx |-> i,
                 improved_score |-> _calculate_improved_score(t, profile, catalog[i])]],
             n)

\* get_improved_recommendations: [] without a candidate_id and when scoring
\* raises (profile skills None); else the n best-scored postings.
get_improved_recommendations(t, profile, catalog, n) ==
    IF profile.candidate_id = "" THEN <<>>
    ELSE IF profile.skills_null /\ catalog # <<>> THEN <<>>
    ELSE PyPrefix(
            sort_reverse(
                [i \in 1..Len(catalog) |->
                    [idx |-> i,
                     improved_score |->
                        _calculate_improved_score(t, profile, catalog[i])]],
                <<>>),
            n)

\* Weight tables that feedback can produce: empty, grown above 1 (twelve
\* accepted records of score 10), fallen below 0 (rejected records).
SkillTables ==
    {EmptyTable,
     [k \in {"python"} |-> 12 * GapIncrement(RewardScale)],
     [k \in {"python"} |-> 25 * GapIncrement(-8)],
     [k \in {"python", "sql"} |-> GapIncrement(RewardScale)]}

PreferenceTables(key) ==
    {EmptyTable,
     [k \in {key} |-> 12 * GapIncrement(RewardScale)],
     [k \in {key} |-> 25 * GapIncrement(-8)]}

Internships ==
    [skills : {<<"Python">>, <<"Python", "SQL">>},
     company : {"Acme", "Beta"}, location : {"Pune"}, sector : {"IT"}]

InternshipCatalogs == UNION {[1..len -> Internships] : len \in 0..MaxCatalog}

\* The catalog the application hands to every scoring call.
internships_data ==
    <<[skills |-> <<"Python">>, company |-> "Acme", location |-> "Pune",
       sector |-> "IT"],
      [skills |-> <<"Python", "SQL">>, company |-> "Beta", location |-> "Pune",
       sector |-> "IT"]>>

CandidateProfiles ==
    [candidate_id : {"", "c1"}, skills : {<<>>, <<"Python">>},
     skills_null : {FALSE}]
        \cup {[candidate_id |-> "c1", skills |-> <<>>, skills_null |-> TRUE]}

InitScoring ==
    /\ pc = "scoring_idle"
    /\ skill_weights \in SkillTables
    /\ company_preferences \in PreferenceTables("acme")
    /\ location_preferences \in {EmptyTable}
    /\ sector_preferences \in PreferenceTables("it")
    /\ internships \in InternshipCatalogs
    /\ candidate_profile = NoProfile
    /\ improved = <<>>
    /\ improved_response = NoResponse
    /\ client = TRUE
    /\ feedback_data = NoFeedback
    /\ returned = "none"
    /\ before = <<EmptyTable, EmptyTable, EmptyTable, EmptyTable>>
    /\ processed = 0
    /\ CoreIdle
    /\ SkillsIdle
    /\ RewardIdle
    /\ ServingIdle

\* A direct call rl_system.get_improved_recommendations(profile, internships, n).
GetImproved ==
    /\ pc = "scoring_idle"
    /\ \E profile \in CandidateProfiles, n \in 0..MaxNum :
        /\ candidate_profile' = profile
        /\ num_recommendations' = n
        /\ improved' = get_improved_recommendations(tables, profile, internships, n)
    /\ improved_response' = NoResponse
    /\ pc' = "scoring_done"
    /\ UNCHANGED <<df, job_vectors, primary_recommender, backup_recommender, resume_ok,
                   attempted, llm, result, similarities, top_k, similar_indices,
                   tier2, csv_columns, emergency_recommendations, internships>>
    /\ UNCHANGED <<skills_vars, reward_vars, learning_vars, serving_vars>>

\* POST /api/improved-recommendations with a non-empty body (app.py 465-520):
\* the learned list, or the ranking engine's list when that one is empty.
ImprovedEndpoint ==
    /\ pc = "scoring_idle"
    /\ \E profile \in CandidateProfiles :
        LET recs == get_improved_recommendations(
                        tables, profile, internships, EndpointNum)
        IN  /\ candidate_profile' = profile
            /\ improved' = recs
            /\ improved_response' =
                IF recs = <<>>
                THEN [status |-> 200, method |-> "RAG_AI_System_Fallback",
                      learning_applied |-> FALSE]
                ELSE [status |-> 200, method |-> "Reinforcement_Learning_Enhanced",
                      learning_applied |-> TRUE]
    /\ num_recommendations' = EndpointNum
    /\ pc' = "endpoint_done"
    /\ UNCHANGED <<df, job_vectors, primary_recommender, backup_recommender, resume_ok,
                   attempted, llm, result, similarities, top_k, similar_indices,
                   tier2, csv_columns, emergency_recommendations, internships>>
    /\ UNCHANGED <<skills_vars, reward_vars, learning_vars, serving_vars>>

ScoringReturn ==
    /\ pc \in {"scoring_done", "endpoint_done"}
    /\ pc' = "scoring_idle"
    /\ candidate_profile' = NoProfile
    /\ num_recommendations' = 0
    /\ improved' = <<>>
    /\ improved_response' = NoResponse
    /\ UNCHANGED <<df, job_vectors, primary_recommender, backup_recommender, resume_ok,
                   attempted, llm, result, similarities, top_k, similar_indices,
                   tier2, csv_columns, emergency_recommendations, internships>>
    /\ UNCHANGED <<skills_vars, reward_vars, learning_vars, serving_vars>>

NextScoring == GetImproved \/ ImprovedEndpoint \/ ScoringReturn

SpecScoring == InitScoring /\ [][NextScoring]_vars

\* C16: _calculate_improved_score returns a value in [0,1] for every
\* candidate, every posting and every weight-table state, including weights
\* grown above 1 or fallen below 0.
C16_ScoreInUnitInterval ==
    \A i \in 1..Len(improved) :
        /\ improved[i].improved_score >= 0
        /\ improved[i].improved_score <= ScoreUnit

C16_Witness ==
    /\ pc = "scoring_done"
    /\ "python" \in DOMAIN skill_weights
    /\ skill_weights["python"] > WeightScale
    /\ \E i \in 1..Len(improved) :
        /\ improved[i].improved_score = ScoreUnit
        /\ final_score(tables, candidate_profile, internships[improved[i].idx])
                > ScoreUnit

\* The score the code gives posting i of the catalog for the profile of the call.
Scored(i) == _calculate_improved_score(tables, candidate_profile, internships[i])

\* improved is the top num_recommendations of the catalog: every entry
\* carries its posting's score, the order is non-increasing with ties in
\* catalog order, and no posting left out scores higher than one returned.
TopNOrdered ==
    /\ Len(improved) = Min(num_recommendations, Len(internships))
    /\ \A i \in 1..Len(improved) :
        /\ improved[i].idx \in 1..Len(internships)
        /\ improved[i].improved_score = Scored(improved[i].idx)
    /\ \A i, j \in 1..Len(improved) :
        i < j =>
            \/ improved[i].improved_score > improved[j].improved_score
            \/ /\ improved[i].improved_score = improved[j].improved_score
               /\ improved[i].idx < improved[j].idx
    /\ \A k \in 1..Len(internships) :
        (\A i \in 1..Len(improved) : improved[i].idx # k) =>
            \A i \in 1..Len(improved) : Scored(k) <= improved[i].improved_score

\* C17: get_improved_recommendations scores every posting of the catalog and
\* returns the top n (min(n, N) of N postings) in non-increasing order of
\* improved_score, equal scores in catalog order, and no posting left out
\* scores strictly higher than a posting returned.
C17_TopN == pc = "scoring_done" => TopNOrdered

\* C17 as the code has it: so for a profile with a candidate_id whose skills
\* can be split; for any other profile the list is empty.
C17_TopNWhenScored ==
    pc = "scoring_done" =>
        IF candidate_profile.candidate_id # "" /\ ~candidate_profile.skills_null
        THEN TopNOrdered
        ELSE improved = <<>>

C17_Witness ==
    /\ pc = "scoring_done"
    /\ candidate_profile.candidate_id # ""
    /\ Len(internships) = 2
    /\ num_recommendations = 1
    /\ Len(improved) = 1
    /\ improved[1].idx = 2
    /\ Scored(1) < Scored(2)

\* C18: on a cold start (no feedback processed, the four tables empty) an
\* improved-recommendations request is not answered by weight-based scoring
\* but by the ranking engine's fallback path.
C18_ColdStartFallsBack ==
    (/\ pc = "endpoint_done"
     /\ skill_weights = EmptyTable
     /\ company_preferences = EmptyTable
     /\ location_preferences = EmptyTable
     /\ sector_preferences = EmptyTable) =>
        /\ improved_response.method = "RAG_AI_System_Fallback"
        /\ ~improved_response.learning_applied

(* ----------------------------------- concurrent calls of process_feedback *)
\* Two request threads of the Flask server, each inside
\* asyncio.run(rl_system.process_feedback(...)) on the shared rl_system, at
\* the update of the same key of skill_weights (lines 179-183).  No lock is
\* taken; a thread may be pre-empted between any two of its steps.
Threads == {1, 2}

RaceKey == Lower("Python")

\* learning_rate * reward of the two records.
RaceIncrements ==
    {GapIncrement(_calculate_reward(d, [kind |-> "num", value |-> v]).r20) :
        d \in {"accepted", "rejected"}, v \in {1, ScoreMax}}

InitRace ==
    /\ pc = "racing"
    /\ skill_weights \in
            {EmptyTable, [k \in {RaceKey} |-> GapIncrement(RewardScale)],
             [k \in {RaceKey, "sql"} |-> GapIncrement(-8)]}
    /\ company_preferences = EmptyTable
    /\ location_preferences = EmptyTable
    /\ sector_preferences = EmptyTable
    /\ before = tables
    /\ threads \in [Threads -> [at : {"contains"}, inc : RaceIncrements,
                                loaded : {0}]]
    /\ client = TRUE
    /\ feedback_data = NoFeedback
    /\ returned = "none"
    /\ processed = 0
    /\ http = NoRequest
    /\ CoreIdle
    /\ SkillsIdle
    /\ RewardIdle
    /\ ScoringIdle

\* if skill_lower in self.skill_weights (line 180)
Contains(t) ==
    /\ threads[t].at = "contains"
    /\ threads' = [threads EXCEPT ![t].at =
                        IF RaceKey \in DOMAIN skill_weights
                        THEN "load" ELSE "assign"]
    /\ UNCHANGED <<core_vars, skills_vars, reward_vars, learning_vars,
                   scoring_vars, http>>

\* line 181, reading self.skill_weights[skill_lower]
Load(t) ==
    /\ threads[t].at = "load"
    /\ threads' = [threads EXCEPT ![t].at = "store",
                                  ![t].loaded = skill_weights[RaceKey]]
    /\ UNCHANGED <<core_vars, skills_vars, reward_vars, learning_vars,
                   scoring_vars, http>>

\* line 181, storing the sum back
Store(t) ==
    /\ threads[t].at = "store"
    /\ skill_weights' =
            [skill_weights EXCEPT ![RaceKey] = threads[t].loaded + threads[t].inc]
    /\ threads' = [threads EXCEPT ![t].at = "done"]
    /\ UNCHANGED <<core_vars, skills_vars, reward_vars, scoring_vars, http,
                   company_preferences, location_preferences,
                   sector_preferences, client, feedback_data, returned,
                   before, processed>>

\* line 183: self.skill_weights[skill_lower] = self.learning_rate * reward
Assign(t) ==
    /\ threads[t].at = "assign"
    /\ skill_weights' =
            [k \in DOMAIN skill_weights \cup {RaceKey} |->
                IF k = RaceKey THEN threads[t].inc ELSE skill_weights[k]]
    /\ threads' = [threads EXCEPT ![t].at = "done"]
    /\ UNCHANGED <<core_vars, skills_vars, reward_vars, scoring_vars, http,
                   company_preferences, location_preferences,
                   sector_preferences, client, feedback_data, returned,
                   before, processed>>

NextRace == \E t \in Threads : Contains(t) \/ Load(t) \/ Store(t) \/ Assign(t)

SpecRace == InitRace /\ [][NextRace]_vars

\* C19: when two process_feedback calls run concurrently on the shared
\* rl_system and touch the same weight key, the final weight of the key is
\* its initial weight (nothing for a new key) plus both increments, under
\* every interleaving.
C19_NoLostUpdate ==
    (pc = "racing" /\ \A t \in Threads : threads[t].at = "done") =>
        skill_weights[RaceKey] =
            Get(before[1], RaceKey, 0) + threads[1].inc + threads[2].inc

(* ------------------------------------------------- the recommend endpoints *)
BadRequest == 400
NotFound == 404
ServerError == 500
Ok == 200

\* The modules that serve a recommend route.
Endpoints == {"web_interface", "app_simple", "app_with_rag", "app"}

required_fields == {"name", "education", "skills"}

\* A JSON object as the set of its keys with a non-empty value.
Bodies == SUBSET (required_fields \cup {"experience"})

\* What the ranking does once called: a list, an empty list, an exception.
RankingOutcomes == {"list", "empty", "raises"}

\* recommend() of web_interface.py, app_simple.py and app_with_rag.py: the
\* required fields are checked first; app_with_rag.py catches the exception
\* of its recommenders and answers with the keyword matching.
recommend(endpoint, body, outcome) ==
    IF required_fields \ body # {}
    THEN [status |-> BadRequest, ranking |-> "not_invoked"]
    ELSE [status |-> IF outcome = "raises" /\ endpoint # "app_with_rag"
                     THEN ServerError ELSE Ok,
          ranking |-> outcome]

\* get_recommendations_endpoint() of app.py: only an empty body is refused.
get_recommendations_endpoint(body, outcome) ==
    IF body = {}
    THEN [status |-> BadRequest, ranking |-> "not_invoked"]
    ELSE [status |-> CASE outcome = "list" -> Ok
                       [] outcome = "empty" -> NotFound
                       [] OTHER -> ServerError,
          ranking |-> outcome]

InitServing ==
    /\ pc = "http_idle"
    /\ http = NoRequest
    /\ threads = NoThreads
    /\ CoreIdle
    /\ SkillsIdle
    /\ RewardIdle
    /\ LearningIdle
    /\ ScoringIdle

\* A POST to the recommend route of one of the applications.
RecommendRequest ==
    /\ pc = "http_idle"
    /\ \E endpoint \in Endpoints, body \in Bodies, outcome \in RankingOutcomes :
        LET answer == IF endpoint = "app"
                      THEN get_recommendations_endpoint(body, outcome)
                      ELSE recommend(endpoint, body, outcome)
        IN  http' = [endpoint |-> endpoint, body |-> body,
                     status |-> answer.status, ranking |-> answer.ranking]
    /\ pc' = "http_answered"
    /\ UNCHANGED <<df, job_vectors, primary_recommender, backup_recommender,
                   num_recommendations, resume_ok, attempted, llm, result,
                   similarities, top_k, similar_indices, tier2, csv_columns,
                   emergency_recommendations, threads>>
    /\ UNCHANGED <<skills_vars, reward_vars, learning_vars, scoring_vars>>

RecommendAnswered ==
    /\ pc = "http_answered"
    /\ pc' = "http_idle"
    /\ http' = NoRequest
    /\ UNCHANGED <<df, job_vectors, primary_recommender, backup_recommender,
                   num_recommendations, resume_ok, attempted, llm, result,
                   similarities, top_k, similar_indices, tier2, csv_columns,
                   emergency_recommendations, threads>>
    /\ UNCHANGED <<skills_vars, reward_vars, learning_vars, scoring_vars>>

NextServing == RecommendRequest \/ RecommendAnswered

SpecServing == InitServing /\ [][NextServing]_vars

\* C20: a recommendation request whose profile lacks name, education or
\* skills is rejected with a 4xx response before any ranking tier is invoked,
\* at every recommend endpoint of the application.
C20_ValidationBeforeRanking ==
    (pc = "http_answered" /\ required_fields \ http.body # {}) =>
        /\ http.status \in BadRequest..(ServerError - 1)
        /\ http.ranking = "not_invoked"

(* ------------------------------------------------ further claims, by part *)
\* C21: among postings of equal cosine similarity get_similar_internships
\* returns the one that comes earlier in the catalog first; in particular,
\* when every similarity is 0 the result is the first top_k postings in
\* catalog order.
C21_TiesInCatalogOrder ==
    pc = "index_done" =>
        /\ \A i, j \in 1..Len(similar_indices) :
            (/\ i < j
             /\ similarities[similar_indices[i]] = similarities[similar_indices[j]])
                => similar_indices[i] < similar_indices[j]
        /\ (\A n \in 1..Len(df) : similarities[n] = 0) =>
            similar_indices = [i \in 1..Min(top_k, Len(df)) |-> i]

\* A rejection with a recommendation_score in 1..10 has been rewarded.
RejectionRewarded ==
    /\ pc = "reward_done"
    /\ decision = "rejected"
    /\ feedback_score.kind = "num"
    /\ feedback_score.value \in 1..ScoreMax

\* C22: for a rejected decision the reward is strictly negative for every
\* recommendation_score in 1..10, so every weight a rejection record touches
\* receives a negative increment.
C22_RejectionRewardNegative ==
    RejectionRewarded =>
        /\ reward.kind = "value"
        /\ reward.r20 < 0
        /\ GapIncrement(reward.r20) < 0
        /\ StrengthIncrement(reward.r20) < 0

\* C22 as the code has it: the reward of a rejection is never positive; it
\* is strictly negative, and so are the increments, for the scores 1..9, and
\* it is 0, with increments 0, for the score 10.
C22_RejectionRewardNotPositive ==
    RejectionRewarded =>
        /\ reward.kind = "value"
        /\ reward.r20 <= 0
        /\ IF feedback_score.value < ScoreMax
           THEN /\ reward.r20 < 0
                /\ GapIncrement(reward.r20) < 0
                /\ StrengthIncrement(reward.r20) < 0
           ELSE /\ reward.r20 = 0
                /\ GapIncrement(reward.r20) = 0
                /\ StrengthIncrement(reward.r20) = 0

C22_Witness ==
    /\ RejectionRewarded
    /\ feedback_score.value = ScoreMax
    /\ reward = [kind |-> "value", r20 |-> 0]

\* The reward of a record, in units of 1/20 (process_feedback, line 52).
RewardOf(fb) ==
    _calculate_reward(fb.decision, get_recommendation_score(fb.score)).r20

\* The call returned True and _update_model ran to its end.
UpdateCompleted ==
    /\ FeedbackOver
    /\ returned = "True"
    /\ feedback_data.company # "null"

\* The weight 0.5 that scoring assumes for a key it does not find.
DefaultWeight == WeightScale \div 2

\* C23: the first update of a key that is not yet in a weight table starts
\* from the default weight 0.5: afterwards the stored weight is
\* 0.5 + learning_rate * reward (0.5 + learning_rate * reward * 0.5 for a
\* strength), in each of the skill, company, location and sector tables.
C23_FirstUpdateFromDefault ==
    UpdateCompleted =>
        LET fb == feedback_data
            gap == GapIncrement(RewardOf(fb))
            strength == StrengthIncrement(RewardOf(fb))
        IN  /\ \A i \in 1..Len(fb.skill_gaps) :
                Lower(fb.skill_gaps[i]) \notin DOMAIN before[1] =>
                    skill_weights[Lower(fb.skill_gaps[i])] = DefaultWeight + gap
            /\ \A i \in 1..Len(fb.strengths) :
                Lower(fb.strengths[i]) \notin DOMAIN before[1] =>
                    skill_weights[Lower(fb.strengths[i])] = DefaultWeight + strength
            /\ (fb.company # "" /\ Lower(fb.company) \notin DOMAIN before[2]) =>
                    company_preferences[Lower(fb.company)] = DefaultWeight + gap
            /\ Lower(fb.location) \notin DOMAIN before[3] =>
                    location_preferences[Lower(fb.location)] = DefaultWeight + gap
            /\ Lower(fb.sector) \notin DOMAIN before[4] =>
                    sector_preferences[Lower(fb.sector)] = DefaultWeight + gap

\* The number of entries of a list of skill names that lower-case to key.
Occurrences(skills, key) ==
    Cardinality({i \in 1..Len(skills) : Lower(skills[i]) = key})

\* C24: one successful process_feedback with reward r changes the weight of
\* each skill in skill_gaps by learning_rate * r per occurrence, of each skill
\* in strengths by learning_rate * r * 0.5 per occurrence, and the company,
\* location and sector entries of the internship by learning_rate * r each
\* (stated for the keys the tables already held when the call started).
C24_ExactIncrements ==
    (FeedbackOver /\ returned = "True") =>
        LET fb == feedback_data
            gap == GapIncrement(RewardOf(fb))
            strength == StrengthIncrement(RewardOf(fb))
        IN  /\ \A key \in DOMAIN before[1] :
                skill_weights[key] = before[1][key]
                    + Occurrences(fb.skill_gaps, key) * gap
                    + Occurrences(fb.strengths, key) * strength
            /\ (fb.company # "" /\ Lower(fb.company) \in DOMAIN before[2]) =>
                    company_preferences[Lower(fb.company)]
                        = before[2][Lower(fb.company)] + gap
            /\ Lower(fb.location) \in DOMAIN before[3] =>
                    location_preferences[Lower(fb.location)]
                        = before[3][Lower(fb.location)] + gap
            /\ Lower(fb.sector) \in DOMAIN before[4] =>
                    sector_preferences[Lower(fb.sector)]
                        = before[4][Lower(fb.sector)] + gap

\* The learning record of a resolved application could not be saved.
SaveFailed ==
    /\ FeedbackOver
    /\ client
    /\ feedback_data.application = "found"
    /\ feedback_data.save = "fails"

\* C25: when saving the learning record fails for a resolved application,
\* process_feedback still returns True with the weight update of
\* _update_model applied to the in-memory tables, and every score computed
\* afterwards is the score under the updated weights.
C25_SaveFailureKeepsUpdate ==
    SaveFailed =>
        LET updated == _update_model(before, feedback_data,
                                     RewardOf(feedback_data)).tables
        IN  /\ returned = "True"
            /\ tables = updated
            /\ \A profile \in CandidateProfiles :
                get_improved_recommendations(
                        tables, profile, internships_data, EndpointNum)
                    = get_improved_recommendations(
                        updated, profile, internships_data, EndpointNum)

C25_Witness ==
    /\ SaveFailed
    /\ returned = "True"
    /\ tables # before
    /\ \E profile \in CandidateProfiles :
        get_improved_recommendations(
                tables, profile, internships_data, EndpointNum)
            # get_improved_recommendations(
                before, profile, internships_data, EndpointNum)

\* C26: every improved_score equals the reference blend
\* clamp01(0.4 * skill_score + 0.2 * (company + location + sector weight)),
\* where skill_score averages, over the posting's required skills, the
\* learned weight if the candidate has the skill and 0.3 times it if not, an
\* unseen skill counting with weight 0.5 in both cases, and an unseen
\* company, location or sector with 0.5.  The reference is the score under
\* skill weights in which every unseen required skill is entered with 0.5.
C26_ReferenceBlend ==
    pc = "scoring_done" =>
        \A i \in 1..Len(improved) :
            LET internship == internships[improved[i].idx]
                required_skills == Range(split_skills(internship.skills))
                with_default ==
                    [key \in DOMAIN skill_weights \cup required_skills |->
                        Get(skill_weights, key, DefaultWeight)]
            IN  improved[i].improved_score
                    = _calculate_improved_score(
                        <<with_default, company_preferences,
                          location_preferences, sector_preferences>>,
                        candidate_profile, internship)

(* ------------------------------------------------------------------ *)
(* The learner in the running application: feedback, scoring and the   *)
(* read-only requests on one rl_system                                 *)
(* ------------------------------------------------------------------ *)

\* rl_system after ReinforcementLearningSystem(): four empty tables.
InitSystem ==
    /\ pc = "feedback_idle"
    /\ client = TRUE
    /\ skill_weights = EmptyTable
    /\ company_preferences = EmptyTable
    /\ location_preferences = EmptyTable
    /\ sector_preferences = EmptyTable
    /\ feedback_data = NoFeedback
    /\ returned = "none"
    /\ before = <<EmptyTable, EmptyTable, EmptyTable, EmptyTable>>
    /\ processed = 0
    /\ candidate_profile = NoProfile
    /\ internships = internships_data
    /\ improved = <<>>
    /\ improved_response = NoResponse
    /\ CoreIdle
    /\ SkillsIdle
    /\ RewardIdle
    /\ ServingIdle

ImprovedRequest_SetDefault ==
    /\ pc = "feedback_idle"
    /\ \E profile \in CandidateProfiles :
        /\ candidate_profile' = profile
        /\ improved' = get_improved_recommendations(
                            tables, profile, internships, EndpointNum)
    /\ skill_weights' =
        [key \in DOMAIN skill_weights \cup {"python"} |->
            Get(skill_weights, key, DefaultWeight)]
    /\ improved_response' = NoResponse
    /\ num_recommendations' = EndpointNum
    /\ pc' = "improved_done"
    /\ UNCHANGED <<df, job_vectors, primary_recommender, backup_recommender, resume_ok,
                   attempted, llm, result, similarities, top_k, similar_indices,
                   tier2, csv_columns, emergency_recommendations, internships>>
    /\ UNCHANGED <<company_preferences, location_preferences,
                   sector_preferences, client, feedback_data, returned, before,
                   processed>>
    /\ UNCHANGED <<skills_vars, reward_vars, serving_vars>>

\* POST /api/improved-recommendations between two feedback records: scoring
\* and ranking read the tables through .get and write none of them.
ImprovedRequest ==
    /\ pc = "feedback_idle"
    /\ \E profile \in CandidateProfiles :
        LET recs == get_improved_recommendations(
                        tables, profile, internships, EndpointNum)
        IN  /\ candidate_profile' = profile
            /\ improved' = recs
            /\ improved_response' =
                IF recs = <<>>
                THEN [status |-> 200, method |-> "RAG_AI_System_Fallback",
                      learning_applied |-> FALSE]
                ELSE [status |-> 200, method |-> "Reinforcement_Learning_Enhanced",
                      learning_applied |-> TRUE]
    /\ num_recommendations' = EndpointNum
    /\ pc' = "improved_done"
    /\ UNCHANGED <<df, job_vectors, primary_recommender, backup_recommender, resume_ok,
                   attempted, llm, result, similarities, top_k, similar_indices,
                   tier2, csv_columns, emergency_recommendations, internships>>
    /\ UNCHANGED <<skills_vars, reward_vars, learning_vars, serving_vars>>

\* get_learning_summary (reads the collaborator's insights only) and a
\* recommend request (served by the recommenders, which hold no reference to
\* rl_system): neither names a weight table.
ReadRequest ==
    /\ pc = "feedback_idle"
    /\ pc' \in {"summary_done", "recommend_done"}
    /\ UNCHANGED <<df, job_vectors, primary_recommender, backup_recommender,
                   num_recommendations, resume_ok, attempted, llm, result,
                   similarities, top_k, similar_indices, tier2, csv_columns,
                   emergency_recommendations>>
    /\ UNCHANGED ext_vars

\* The request is answered.
RequestDone ==
    /\ pc \in {"improved_done", "summary_done", "recommend_done"}
    /\ pc' = "feedback_idle"
    /\ candidate_profile' = NoProfile
    /\ num_recommendations' = 0
    /\ improved' = <<>>
    /\ improved_response' = NoResponse
    /\ UNCHANGED <<df, job_vectors, primary_recommender, backup_recommender, resume_ok,
                   attempted, llm, result, similarities, top_k, similar_indices,
                   tier2, csv_columns, emergency_recommendations, internships>>
    /\ UNCHANGED <<skills_vars, reward_vars, learning_vars, serving_vars>>

NextSystem ==
    \/ ProcessFeedback
    \/ FeedbackReturn
    \/ ImprovedRequest
    \/ ReadRequest
    \/ RequestDone

SpecSystem == InitSystem /\ [][NextSystem]_vars

\* C27: the four weight tables start empty and are changed only by the
\* feedback update rule: a step that changes a table is a process_feedback
\* call and leaves exactly the tables of _update_model; scoring and ranking,
\* get_learning_summary and recommend requests change none; and no step
\* removes a key from any table.
C27_TablesChangedOnlyByFeedback ==
    /\ tables = <<EmptyTable, EmptyTable, EmptyTable, EmptyTable>>
    /\ [][/\ tables' # tables =>
                /\ pc = "feedback_idle"
                /\ pc' = "feedback_done"
                /\ tables' = _update_model(tables, feedback_data',
                                           RewardOf(feedback_data')).tables
          /\ pc' \in {"improved_done", "summary_done", "recommend_done"} =>
                tables' = tables
          /\ DOMAIN skill_weights \subseteq DOMAIN skill_weights'
          /\ DOMAIN company_preferences \subseteq DOMAIN company_preferences'
          /\ DOMAIN location_preferences \subseteq DOMAIN location_preferences'
          /\ DOMAIN sector_preferences \subseteq DOMAIN sector_preferences']_vars

C27_Witness ==
    /\ pc = "improved_done"
    /\ processed = 2
    /\ DOMAIN skill_weights = {"python", "sql"}
    /\ "acme" \in DOMAIN company_preferences
    /\ Len(improved) = Len(internships_data)

\* The index of a recommender that was constructed: fitted by exactly one
\* fit_transform call, with one row per posting of the catalog.
IndexBuiltOnce(recommender, index) ==
    index = IF recommender THEN fit_transform(df) ELSE NoIndex

\* C28: the similarity index of each recommender is built once, when the
\* recommender is constructed, and no step of a recommend_internships,
\* get_recommendations or get_similar_internships call refits or modifies it.
C28_IndexBuiltOnceAndReused ==
    /\ [](/\ IndexBuiltOnce(primary_recommender, job_vectors.primary)
          /\ IndexBuiltOnce(backup_recommender, job_vectors.backup))
    /\ [][job_vectors' = job_vectors]_vars

C28_Witness ==
    /\ pc = "returned"
    /\ attempted = <<[tier |-> "primary", outcome |-> "returned"]>>
    /\ llm = "ok"
    /\ Len(df) = MaxN
    /\ similar_indices # <<>>
    /\ job_vectors.primary = fit_transform(df)
    /\ job_vectors.backup = fit_transform(df)

\* C29: one process_feedback call applies its weight updates all-or-nothing:
\* after the call either every key named by the record (each gap skill, each
\* strength, the company, location and sector of the internship) has
\* received its increment, or no weight table has changed at all.
C29_AllOrNothing ==
    FeedbackOver =>
        LET fb == feedback_data
            gap == GapIncrement(RewardOf(fb))
            strength == StrengthIncrement(RewardOf(fb))
        IN  \/ tables = before
            \/ /\ skill_weights =
                    BumpEach(BumpEach(before[1], fb.skill_gaps, gap),
                             fb.strengths, strength)
               /\ fb.company # "null" =>
                    company_preferences = BumpIfSet(before[2], fb.company, gap)
               /\ location_preferences = BumpIfSet(before[3], fb.location, gap)
               /\ sector_preferences = BumpIfSet(before[4], fb.sector, gap)

\* An accepted record (reward > 0) was processed and _update_model ran to
\* its end.
AcceptedProcessed ==
    /\ UpdateCompleted
    /\ feedback_data.decision = "accepted"
    /\ RewardOf(feedback_data) > 0

\* C30: processing an accepted feedback record (reward > 0) for an internship
\* never lowers the improved score of that internship for the same candidate:
\* for every posting with the record's company, location and sector, and
\* every candidate profile, the score after the update is at least the score
\* before it.
C30_AcceptedNeverLowersScore ==
    AcceptedProcessed =>
        \A internship \in Internships, profile \in CandidateProfiles :
            (/\ internship.company = feedback_data.company
             /\ internship.location = feedback_data.location
             /\ internship.sector = feedback_data.sector)
                => _calculate_improved_score(tables, profile, internship)
                    >= _calculate_improved_score(before, profile, internship)

====
